---- MODULE Spec2Model ----
(***************************************************************************)
(* Dogs-vs-cats CNN scripts (arcada_dl_project_2000859):                   *)
(*   tf2-dvc_tfr-cnn-simple.py      train a small CNN from scratch         *)
(*   tf2-dvc_tfr-cnn-pretrained.py  reuse VGG16, then fine-tune it         *)
(*   tf2-dvc_tfr-cnn-evaluate.py    evaluate a saved model on the test set *)
(*                                                                         *)
(* Three specifications share this module:                                 *)
(*   Spec       the top-level control flow of one run of one script        *)
(*   SpecData   one tf.data pipeline being iterated, batch by batch        *)
(*   SpecImage  preprocess_image applied to one decoded image              *)
(* Strings that are built or inspected by the code (paths, file names) are *)
(* sequences of tokens, "/" being a token of its own.                      *)
(***************************************************************************)
EXTENDS Integers, Sequences, FiniteSets, TLC

VARIABLES
    \* ---- one run of a script (Spec)
    script,     \* which of the three scripts runs
    environ,    \* os.environ: a function from variable names to values
    argv,       \* sys.argv
    pc,         \* the statement the run is at
    status,     \* "running" | "exited" (sys.exit) | "raised" | "finished"
    error,      \* what was raised, "none" when nothing was
    DATADIR,    \* the global DATADIR (<<"unset">> before it is assigned)
    datapath,   \* the global datapath
    datasets,   \* the tf.data pipelines defined so far: split -> description
    pt_model,   \* the pretrained network: [name, nlayers], or NoModel
    layers,     \* model.layers: a sequence of [kind, origin, trainable]
    compiled,   \* the trainable flags model.compile() last captured
    phase,      \* training phase: 1, or 2 (fine-tuning)
    epoch,      \* epochs the running fit() has completed
    logdirs,    \* TensorBoard log directories created, in order
    files,      \* model artifacts written by model.save(), in order
    loaded,     \* evaluate: the file load_model() read (<<>> when none)
    events,     \* the run's framework calls, in order
    stdout,     \* the messages printed that the run's callers read
    \* ---- one dataset pipeline being iterated (SpecData)
    ds,         \* [script, split]: the pipeline iterated
    nrecords,   \* records held by the split's shard files
    labelling,  \* how those records are labelled (see Features)
    seed,       \* the shuffle's random state for this epoch
    dsEpoch,    \* iterations over the dataset completed
    upstream,   \* records read from the shard files this epoch
    shufbuf,    \* the shuffle buffer
    delivered,  \* the ids of the records delivered this epoch, in order of
                \* delivery, as runs [lo, hi] of consecutive ids
    lastBatch,  \* the batch delivered last
    nbatches,   \* batches delivered this epoch
    exhausted,  \* the iterator signalled end of sequence
    \* ---- preprocess_image on one image (SpecImage)
    encoded,    \* the argument `image`: an encoded JPEG
    augment,    \* the argument `augment`
    ipc,        \* the statement preprocess_image is at
    image       \* the local `image`: a tensor

scriptVars == <<script, environ, argv, pc, status, error, DATADIR, datapath,
                datasets, pt_model, layers, compiled, phase, epoch, logdirs,
                files, loaded, events, stdout>>
dataVars == <<ds, nrecords, labelling, seed, dsEpoch, upstream, shufbuf, delivered,
              lastBatch, nbatches, exhausted>>
imageVars == <<encoded, augment, ipc, image>>
vars == <<scriptVars, dataVars, imageVars>>

----------------------------------------------------------------------------
(* Bounds of the model *)

\* sys.argv holds the script name and up to MaxArgs arguments
MaxArgs == 2

\* the shuffle's random state starts an epoch in 0..MaxSeed
MaxSeed == 2
\* passes over one dataset that are followed (fit makes `epochs` of them)
MaxPasses == 2
\* besides their documented sizes, the splits are tried with every size of up
\* to MaxSmallBatches whole batches plus 0, 1 or BATCH_SIZE - 1 records
MaxSmallBatches == 1

\* source images are tried with heights and widths of 1..MaxSrcDim pixels,
\* besides sizes around those the code resizes to
MaxSrcDim == 2
\* the pixels looked at are those within MaxProbe of an edge of the image
MaxProbe == 1
\* random_crop offsets tried: those within MaxOffset of either end of the range
MaxOffset == 0

----------------------------------------------------------------------------
(* Program constants *)

Scripts == {"simple", "pretrained", "evaluate"}

BATCH_SIZE == 32
pretrained_first_trainable_layer == 15
\* len(pt_model.layers) of applications.VGG16(include_top=False): the input
\* layer, then blocks of 2+1, 2+1, 3+1, 3+1 and 3+1 convolution and pooling layers
VGG16_LAYERS == 19

INPUT_IMAGE_SIZE == <<160, 160, 3>>
\* the size the augmenting path resizes to before it crops
AugmentResize == <<256, 256>>

\* nimages (the documented sizes of the splits; the pipelines never read it)
nimages == [train |-> 2000, validation |-> 1000, test |-> 22000]

\* `epochs` of the fit() call of a phase
epochs(s, ph) == IF s = "pretrained" /\ ph = 1 THEN 10 ELSE 20

DefaultDATADIR == <<"/", "scratch", "/", "project_2000859", "/", "extracted", "/">>
DataSubdir == <<"dogs-vs-cats", "/", "train-2000", "/", "tfrecord", "/">>

Min(a, b) == IF a < b THEN a ELSE b
Max(a, b) == IF a > b THEN a ELSE b
Last(s) == s[Len(s)]

----------------------------------------------------------------------------
(* Library functions the scripts call, as far as the scripts depend on them *)

\* "{0:05d}".format(i), for the shard numbers used
Fmt05d(i) == (IF i < 10 THEN "0000" ELSE "000") \o ToString(i)

\* os.path.join(a, b) on POSIX
os_path_join(a, b) ==
    IF b # <<>> /\ b[1] = "/" THEN b
    ELSE IF a = <<>> \/ Last(a) = "/" THEN a \o b
    ELSE a \o <<"/">> \o b

----------------------------------------------------------------------------
(* The inputs of a run *)

\* values the caller may give DATADIR: empty, without and with a final "/"
DataDirValues == { <<>>, <<"/", "data">>, <<"/", "data", "/">> }

NoEnv == [k \in {} |-> <<>>]
Environments == {NoEnv} \cup {[k \in {"DATADIR"} |-> v] : v \in DataDirValues}

ScriptFile(s) == "tf2-dvc_tfr-cnn-" \o s \o ".py"
ModelFiles == {"dvc_tfr-cnn-simple.h5", "dvc_tfr-vgg16-finetune.h5"}
ArgLists == UNION {[1..n -> ModelFiles] : n \in 0..MaxArgs}

\* how model.layers lists the InputLayers that went through model.add():
\* the framework's choice, which the script does not control
InputListings == {"all", "first_hidden", "none"}

NoModel == [name |-> "", nlayers |-> 0]
Unset == <<"unset">>

----------------------------------------------------------------------------
(* tf.data pipelines, as the scripts define them *)

\* the shard files of a split: <prefix>-0000i-of-0000n
Shards == [train |-> 4, validation |-> 2, test |-> 22]

\* variant: the training batches keep their remainder
TrainPipeline_keepRemainder ==
    [map |-> "parse_and_augment_image", shuffle |-> 2000,
     batch |-> BATCH_SIZE, drop_remainder |-> FALSE]

\* train_dataset (lines 132-134 of the training scripts)
TrainPipeline ==
    [map |-> "parse_and_augment_image", shuffle |-> 2000,
     batch |-> BATCH_SIZE, drop_remainder |-> TRUE]
\* variant: the validation pipeline copied from the training one
ValidationPipeline_asTrain ==
    [map |-> "parse_and_augment_image", shuffle |-> 2000,
     batch |-> BATCH_SIZE, drop_remainder |-> TRUE]

\* validation_dataset (lines 136-139 of the training scripts)
ValidationPipeline ==
    [map |-> "parse_and_not_augment_image", shuffle |-> 0,
     batch |-> BATCH_SIZE, drop_remainder |-> TRUE]
\* variant: the test batches drop their remainder
TestPipeline_dropRemainder ==
    [map |-> "parse_and_not_augment_image", shuffle |-> 0,
     batch |-> BATCH_SIZE, drop_remainder |-> TRUE]

\* test_dataset (lines 117-119 of the evaluation script)
TestPipeline ==
    [map |-> "parse_and_not_augment_image", shuffle |-> 0,
     batch |-> BATCH_SIZE, drop_remainder |-> FALSE]

Splits(s) == IF s = "evaluate" THEN {"test"} ELSE {"train", "validation"}

Pipeline(s, split) ==
    CASE split = "train" -> TrainPipeline
      [] split = "validation" -> ValidationPipeline
      [] split = "test" -> TestPipeline

----------------------------------------------------------------------------
(* Spec: one run of a script *)

Layer(kind, origin, idx) ==
    [kind |-> kind, origin |-> origin, idx |-> idx, trainable |-> TRUE]

\* pt_model.layers of a network of n layers: its InputLayer, then n-1 blocks
PtLayers(n) ==
    [i \in 1..n |-> Layer(IF i = 1 THEN "InputLayer" ELSE "block", "pretrained", i - 1)]

\* model.layers after the layers in `added` went through model.add()
Listed(added, listing) ==
    CASE listing = "all" -> added
      [] listing = "first_hidden" ->
            IF added # <<>> /\ added[1].kind = "InputLayer" THEN Tail(added) ELSE added
      [] listing = "none" -> SelectSeq(added, LAMBDA l : l.kind # "InputLayer")

\* the layers the simple script stacks (lines 150-164)
SimpleLayers ==
    << Layer("Conv2D", "top", 0), Layer("MaxPooling2D", "top", 0),
       Layer("Conv2D", "top", 0), Layer("MaxPooling2D", "top", 0),
       Layer("Conv2D", "top", 0), Layer("MaxPooling2D", "top", 0),
       Layer("Flatten", "top", 0), Layer("Dense", "top", 0),
       Layer("Dropout", "top", 0), Layer("Dense", "top", 0) >>

\* the layers the pretrained script stacks on the pretrained ones (lines 175-177)
TopLayers ==
    << Layer("Flatten", "top", 0), Layer("Dense", "top", 0), Layer("Dense", "top", 0) >>

\* for layer in ls: layer.trainable = value
SetTrainable(ls, from, value) ==
    [i \in 1..Len(ls) |-> IF i >= from THEN [ls[i] EXCEPT !.trainable = value] ELSE ls[i]]

\* variant: model.layers[0:], every layer unfrozen
Unfrozen_all(ls) == SetTrainable(ls, 1, TRUE)

\* model.layers[pretrained_first_trainable_layer:] set trainable; the slice
\* starts at the (k+1)-th layer, counting from 1
Unfrozen(ls) == SetTrainable(ls, pretrained_first_trainable_layer + 1, TRUE)

\* variant: one file name for both phases
ArtifactName_onePerModel(s, name, ph) ==
    IF s = "simple" THEN <<"dvc_tfr-cnn-simple.h5">> ELSE <<"dvc_tfr-", name, ".h5">>

\* fname of the artifact a phase saves
ArtifactName(s, name, ph) ==
    IF s = "simple" THEN <<"dvc_tfr-cnn-simple.h5">>
    ELSE <<"dvc_tfr-", name>> \o (IF ph = 1 THEN <<"-reuse.h5">> ELSE <<"-finetune.h5">>)

\* logdir of a phase (the timestamp is kept as its format)
LogdirName(s, name, ph) ==
    <<"logs", "/">> \o
    (IF s = "simple" THEN <<"dvc_tfr-cnn-simple-">>
     ELSE <<"dvc_tfr-", name>> \o (IF ph = 1 THEN <<"-reuse-">> ELSE <<"-finetune-">>))
    \o <<"%Y-%m-%d_%H-%M-%S">>

\* variant: os.environ.get('DATADIR') or the default
SelectDATADIR_orDefault(env) ==
    IF "DATADIR" \in DOMAIN env /\ env["DATADIR"] # <<>>
    THEN env["DATADIR"] ELSE DefaultDATADIR

\* the DATADIR each script selects
SelectDATADIR(env) ==
    IF "DATADIR" \in DOMAIN env THEN env["DATADIR"] ELSE DefaultDATADIR

Event(call, ph) == [call |-> call, phase |-> ph]

\* a run about to execute its first statement
RunStarts ==
    /\ script \in Scripts
    /\ environ \in Environments
    /\ \E args \in ArgLists : argv = <<ScriptFile(script)>> \o args
    /\ pc = "environ"
    /\ status = "running"
    /\ error = "none"
    /\ DATADIR = Unset
    /\ datapath = Unset
    /\ datasets = [k \in {} |-> TestPipeline]
    /\ pt_model = NoModel
    /\ layers = <<>>
    /\ compiled = <<>>
    /\ phase = 1
    /\ epoch = 0
    /\ logdirs = <<>>
    /\ files = <<>>
    /\ loaded = <<>>
    /\ events = <<>>
    /\ stdout = <<>>

\* no dataset is iterated
NoIteration ==
    /\ ds = [split |-> "none", pipeline |-> TestPipeline]
    /\ nrecords = 0
    /\ labelling = "none"
    /\ seed = 0
    /\ dsEpoch = 0
    /\ upstream = 0
    /\ shufbuf = <<>>
    /\ delivered = <<>>
    /\ lastBatch = <<>>
    /\ nbatches = 0
    /\ exhausted = FALSE

NoTensor == [shape |-> <<>>, dtype |-> "none", den |-> 1, ops |-> <<>>]
NoJpeg == [ok |-> FALSE, height |-> 0, width |-> 0, components |-> 0, pattern |-> "none"]

\* preprocess_image is not running
NoImage ==
    /\ encoded = NoJpeg
    /\ augment = FALSE
    /\ ipc = "idle"
    /\ image = NoTensor

Init == RunStarts /\ NoIteration /\ NoImage

Running(at) == status = "running" /\ pc = at

\* os.environ['TF_CPP_MIN_LOG_LEVEL'] = '3'
SetLogLevel ==
    /\ Running("environ")
    /\ environ' = [k \in DOMAIN environ \cup {"TF_CPP_MIN_LOG_LEVEL"} |->
                      IF k = "TF_CPP_MIN_LOG_LEVEL" THEN <<"3">> ELSE environ[k]]
    /\ pc' = "import"
    /\ UNCHANGED <<script, argv, status, error, DATADIR, datapath, datasets, pt_model,
                   layers, compiled, phase, epoch, logdirs, files, loaded, events, stdout>>
    /\ UNCHANGED <<dataVars, imageVars>>

\* import tensorflow ... print('Using Tensorflow version:' ...)
Import ==
    /\ Running("import")
    /\ pc' = "datadir"
    /\ UNCHANGED <<script, environ, argv, status, error, DATADIR, datapath, datasets,
                   pt_model, layers, compiled, phase, epoch, logdirs, files, loaded,
                   events, stdout>>
    /\ UNCHANGED <<dataVars, imageVars>>

\* if 'DATADIR' in os.environ: ... datapath = os.path.join(DATADIR, ...)
ResolveDatapath ==
    /\ Running("datadir")
    /\ DATADIR' = SelectDATADIR(environ)
    /\ datapath' = os_path_join(DATADIR', DataSubdir)
    /\ pc' = "datasets"
    /\ UNCHANGED <<script, environ, argv, status, error, datasets, pt_model, layers,
                   compiled, phase, epoch, logdirs, files, loaded, events, stdout>>
    /\ UNCHANGED <<dataVars, imageVars>>

\* the TFRecordDataset(...).map(...).batch(...).prefetch(...) definitions
DefineDatasets ==
    /\ Running("datasets")
    /\ datasets' = [split \in Splits(script) |->
                      [files |-> [i \in 1..Shards[split] |->
                                     datapath \o <<split, "-", Fmt05d(i - 1), "-of-",
                                                  Fmt05d(Shards[split])>>],
                       pipeline |-> Pipeline(script, split)]]
    /\ pc' = IF script = "evaluate" THEN "argcheck" ELSE "model"
    /\ UNCHANGED <<script, environ, argv, status, error, DATADIR, datapath, pt_model,
                   layers, compiled, phase, epoch, logdirs, files, loaded, events, stdout>>
    /\ UNCHANGED <<dataVars, imageVars>>

\* ---- the training scripts

\* simple: model = Sequential(); model.add(...) x 10
BuildSimpleModel ==
    /\ Running("model") /\ script = "simple"
    /\ layers' = SimpleLayers
    /\ pc' = "compile"
    /\ UNCHANGED <<script, environ, argv, status, error, DATADIR, datapath, datasets,
                   pt_model, compiled, phase, epoch, logdirs, files, loaded, events, stdout>>
    /\ UNCHANGED <<dataVars, imageVars>>

\* pretrained: model = Sequential(); model.add(InputLayer(...));
\* pt_model = applications.VGG16(...); for layer in pt_model.layers: model.add(layer)
BuildPretrainedModel ==
    /\ Running("model") /\ script = "pretrained"
    /\ pt_model' = [name |-> "vgg16", nlayers |-> VGG16_LAYERS]
    /\ \E listing \in InputListings :
          layers' = Listed(<<Layer("InputLayer", "input", 0)>> \o PtLayers(VGG16_LAYERS),
                           listing)
    /\ pc' = "freeze"
    /\ UNCHANGED <<script, environ, argv, status, error, DATADIR, datapath, datasets,
                   compiled, phase, epoch, logdirs, files, loaded, events, stdout>>
    /\ UNCHANGED <<dataVars, imageVars>>

\* for layer in model.layers: layer.trainable = False
Freeze ==
    /\ Running("freeze")
    /\ layers' = SetTrainable(layers, 1, FALSE)
    /\ pc' = "top"
    /\ UNCHANGED <<script, environ, argv, status, error, DATADIR, datapath, datasets,
                   pt_model, compiled, phase, epoch, logdirs, files, loaded, events, stdout>>
    /\ UNCHANGED <<dataVars, imageVars>>

\* model.add(Flatten()); model.add(Dense(64, ...)); model.add(Dense(1, ...))
StackTop ==
    /\ Running("top")
    /\ layers' = layers \o TopLayers
    /\ pc' = "compile"
    /\ UNCHANGED <<script, environ, argv, status, error, DATADIR, datapath, datasets,
                   pt_model, compiled, phase, epoch, logdirs, files, loaded, events, stdout>>
    /\ UNCHANGED <<dataVars, imageVars>>

\* model.compile(...): the model trains the layers trainable at this moment
Compile ==
    /\ Running("compile")
    /\ compiled' = [i \in 1..Len(layers) |-> layers[i].trainable]
    /\ events' = Append(events, Event("compile", phase))
    /\ pc' = "logdir"
    /\ UNCHANGED <<script, environ, argv, status, error, DATADIR, datapath, datasets,
                   pt_model, layers, phase, epoch, logdirs, files, loaded, stdout>>
    /\ UNCHANGED <<dataVars, imageVars>>

\* logdir = os.path.join(...); os.makedirs(logdir); callbacks = [...]
MakeLogdir ==
    /\ Running("logdir")
    /\ logdirs' = Append(logdirs, LogdirName(script, pt_model.name, phase))
    /\ pc' = "fit"
    /\ UNCHANGED <<script, environ, argv, status, error, DATADIR, datapath, datasets,
                   pt_model, layers, compiled, phase, epoch, files, loaded, events, stdout>>
    /\ UNCHANGED <<dataVars, imageVars>>

\* history = model.fit(train_dataset, epochs=epochs, ...): the call starts
Fit ==
    /\ Running("fit")
    /\ epoch' = 0
    /\ events' = Append(events, Event("fit", phase))
    /\ pc' = "fitting"
    /\ UNCHANGED <<script, environ, argv, status, error, DATADIR, datapath, datasets,
                   pt_model, layers, compiled, phase, logdirs, files, loaded, stdout>>
    /\ UNCHANGED <<dataVars, imageVars>>

\* one epoch of fit(): a pass over train_dataset, then one over validation_dataset
FitEpoch ==
    /\ Running("fitting")
    /\ epoch < epochs(script, phase)
    /\ epoch' = epoch + 1
    /\ UNCHANGED <<script, environ, argv, pc, status, error, DATADIR, datapath, datasets,
                   pt_model, layers, compiled, phase, logdirs, files, loaded, events,
                   stdout>>
    /\ UNCHANGED <<dataVars, imageVars>>

\* fit() returns; fname = ...; print('Saving model to', fname)
FitReturn ==
    /\ Running("fitting")
    /\ epoch = epochs(script, phase)
    /\ events' = Append(events, Event("fit_returned", phase))
    /\ stdout' = Append(stdout, <<"Saving model to">> \o
                                  ArtifactName(script, pt_model.name, phase))
    /\ pc' = "save"
    /\ UNCHANGED <<script, environ, argv, status, error, DATADIR, datapath, datasets,
                   pt_model, layers, compiled, phase, epoch, logdirs, files, loaded>>
    /\ UNCHANGED <<dataVars, imageVars>>

\* what follows model.save(fname) in a script
AfterSave(s, ph) == IF s = "pretrained" /\ ph = 1 THEN "unfreeze" ELSE "end"

\* model.save(fname)
Save ==
    /\ Running("save")
    /\ files' = Append(files, ArtifactName(script, pt_model.name, phase))
    /\ events' = Append(events, Event("save", phase))
    /\ pc' = AfterSave(script, phase)
    /\ status' = IF pc' = "end" THEN "finished" ELSE status
    /\ UNCHANGED <<script, environ, argv, error, DATADIR, datapath, datasets, pt_model,
                   layers, compiled, phase, epoch, logdirs, loaded, stdout>>
    /\ UNCHANGED <<dataVars, imageVars>>

\* for layer in model.layers[pretrained_first_trainable_layer:]: layer.trainable = True
Unfreeze ==
    /\ Running("unfreeze")
    /\ layers' = Unfrozen(layers)
    /\ phase' = 2
    /\ pc' = "compile"
    /\ UNCHANGED <<script, environ, argv, status, error, DATADIR, datapath, datasets,
                   pt_model, compiled, epoch, logdirs, files, loaded, events, stdout>>
    /\ UNCHANGED <<dataVars, imageVars>>

\* ---- the evaluation script

\* if len(sys.argv)<2: print('ERROR: model file missing'); sys.exit()
ArgCheck ==
    /\ Running("argcheck")
    /\ IF Len(argv) < 2
       THEN /\ stdout' = Append(stdout, <<"ERROR: model file missing">>)
            /\ status' = "exited"
            /\ pc' = pc
       ELSE /\ pc' = "load"
            /\ UNCHANGED <<stdout, status>>
    /\ UNCHANGED <<script, environ, argv, error, DATADIR, datapath, datasets, pt_model,
                   layers, compiled, phase, epoch, logdirs, files, loaded, events>>
    /\ UNCHANGED <<dataVars, imageVars>>

\* variant: sys.argv[-1]
ModelArg_last(args) == Last(args)

\* sys.argv[1]
ModelArg(args) == args[2]

\* model = load_model(sys.argv[1]); print(model.summary());
\* print('Evaluating model', sys.argv[1])
LoadModel ==
    /\ Running("load")
    /\ loaded' = <<ModelArg(argv)>>
    /\ events' = Append(events, Event("load_model", 0))
    /\ stdout' = Append(stdout, <<"Evaluating model", ModelArg(argv)>>)
    /\ pc' = "evaluate"
    /\ UNCHANGED <<script, environ, argv, status, error, DATADIR, datapath, datasets,
                   pt_model, layers, compiled, phase, epoch, logdirs, files>>
    /\ UNCHANGED <<dataVars, imageVars>>

\* scores = model.evaluate(test_dataset, verbose=2); print("Test set ...")
Evaluate ==
    /\ Running("evaluate")
    /\ events' = Append(events, Event("evaluate", 0))
    /\ stdout' = Append(stdout, <<"Test set">>)
    /\ pc' = "end"
    /\ status' = "finished"
    /\ UNCHANGED <<script, environ, argv, error, DATADIR, datapath, datasets, pt_model,
                   layers, compiled, phase, epoch, logdirs, files, loaded>>
    /\ UNCHANGED <<dataVars, imageVars>>

\* ---- failures

\* what the framework or the system can raise at a statement
Raisable(at) ==
    CASE at = "import" -> {"import"}
      [] at = "model" -> {"weights"}
      [] at = "logdir" -> {"makedirs"}
      [] at = "fitting" -> {"read", "parse", "fit"}
      [] at = "save" -> {"save"}
      [] at = "load" -> {"load"}
      [] at = "evaluate" -> {"read", "parse", "evaluate"}
      [] OTHER -> {}

\* variant: the exception is caught and the run goes on
Propagate_swallowed(e) ==
    /\ error' = e
    /\ pc' = IF pc = "fitting" THEN "save" ELSE pc
    /\ UNCHANGED <<script, environ, argv, status, DATADIR, datapath, datasets, pt_model,
                   layers, compiled, phase, epoch, logdirs, files, loaded, events, stdout>>

\* no statement is inside a try: an exception ends the run where it is raised
Propagate(e) ==
    /\ status' = "raised"
    /\ error' = e
    /\ UNCHANGED <<script, environ, argv, pc, DATADIR, datapath, datasets, pt_model,
                   layers, compiled, phase, epoch, logdirs, files, loaded, events, stdout>>

Raise ==
    /\ status = "running"
    /\ (pc = "model" => script = "pretrained")
    /\ \E e \in Raisable(pc) : Propagate(e)
    /\ UNCHANGED <<dataVars, imageVars>>

Next ==
    \/ SetLogLevel \/ Import \/ ResolveDatapath \/ DefineDatasets
    \/ BuildSimpleModel \/ BuildPretrainedModel \/ Freeze \/ StackTop
    \/ Compile \/ MakeLogdir \/ Fit \/ FitEpoch \/ FitReturn \/ Save \/ Unfreeze
    \/ ArgCheck \/ LoadModel \/ Evaluate
    \/ Raise

Spec == Init /\ [][Next]_vars

----------------------------------------------------------------------------
(* SpecData: a dataset being iterated by fit() or evaluate() *)

\* the sizes a split is tried with
SplitSizes(split) ==
    {nimages[split]}
    \cup {k * BATCH_SIZE + r : k \in 0..MaxSmallBatches, r \in {0, 1, BATCH_SIZE - 1}}
    \cup (IF split = "train" THEN {TrainPipeline.shuffle + BATCH_SIZE + 1} ELSE {})

\* the ways the records of the shard files are tried labelled:
\*   "cats_dogs"  the first half of the records has class label 1, the rest 2
\*   "irregular"  every fourth record lacks the label field, and the others
\*                have the class labels 1, 2 and 3 in turn
Labellings == {"cats_dogs", "irregular"}

\* the features stored in the i-th record that the parse functions read
\* besides the encoded image: "image/class/label", when the record has it
Features(i) ==
    LET label == IF labelling = "cats_dogs" THEN (IF 2 * i <= nrecords THEN 1 ELSE 2)
                 ELSE i % 4
    IN  [k \in (IF labelling = "irregular" /\ i % 4 = 0 THEN {} ELSE {"image/class/label"})
            |-> label]

\* the i-th record of the split's shard files, in the order TFRecordDataset
\* reads them: file after file, record after record
Record(i) == [id |-> i, features |-> Features(i)]

\* feature_description, for the label: a scalar int64 with default_value=0
feature_description ==
    [k \in {"image/class/label"} |->
        [dtype |-> "int64", has_default |-> TRUE, default_value |-> 0]]

\* tf.io.parse_single_example(example_proto, feature_description): a feature
\* the record lacks takes its default_value; it is an error only when the
\* description gives none
tf_io_parse_single_example(rec, description) ==
    [error |-> \E k \in DOMAIN description :
                  k \notin DOMAIN rec.features /\ ~description[k].has_default,
     ex |-> [k \in DOMAIN description |->
                IF k \in DOMAIN rec.features THEN rec.features[k]
                ELSE description[k].default_value]]

\* parse_and_augment_image: (preprocess_image(..., True), label - 1)
parse_and_augment_image(rec) ==
    LET parsed == tf_io_parse_single_example(rec, feature_description)
    IN  [id |-> rec.id, augment |-> TRUE, error |-> parsed.error,
         label |-> parsed.ex["image/class/label"] - 1]

\* variant: the "- 1" missing from the copy of the function
parse_and_not_augment_image_unshifted(rec) ==
    LET parsed == tf_io_parse_single_example(rec, feature_description)
    IN  [id |-> rec.id, augment |-> FALSE, error |-> parsed.error,
         label |-> parsed.ex["image/class/label"]]

\* parse_and_not_augment_image: (preprocess_image(..., False), label - 1)
parse_and_not_augment_image(rec) ==
    LET parsed == tf_io_parse_single_example(rec, feature_description)
    IN  [id |-> rec.id, augment |-> FALSE, error |-> parsed.error,
         label |-> parsed.ex["image/class/label"] - 1]

\* dataset.map(f, num_parallel_calls=10) keeps the order of its input
Map(f, rec) ==
    IF f = "parse_and_augment_image" THEN parse_and_augment_image(rec)
    ELSE parse_and_not_augment_image(rec)

\* the shuffle's pseudo-random generator: its next state, and the slot of a
\* buffer of n elements it selects
RngNext(r) == (75 * r + 74) % 65537
RngSlot(r, n) == (r % n) + 1

\* shuffle(buffer_size): fill the buffer from the mapped records, then give a
\* random element of it.  st = [buf, up, rng, out]; pulls up to k elements.
RECURSIVE PullShuffled(_, _, _, _)
PullShuffled(k, st, p, n) ==
    LET take == Min(p.shuffle - Len(st.buf), n - st.up)
        buf == st.buf \o [i \in 1..take |-> Map(p.map, Record(st.up + i))]
        up == st.up + take
    IN  IF k = 0 \/ buf = <<>> THEN [st EXCEPT !.buf = buf, !.up = up]
        ELSE LET slot == RngSlot(st.rng, Len(buf))
             IN  PullShuffled(k - 1,
                     [buf |-> SubSeq(buf, 1, slot - 1) \o SubSeq(buf, slot + 1, Len(buf)),
                      up |-> up, rng |-> RngNext(st.rng),
                      out |-> Append(st.out, buf[slot])],
                     p, n)

\* without shuffle(): the next k mapped records, in read order
PullInOrder(k, st, p, n) ==
    LET take == Min(k, n - st.up)
    IN  [st EXCEPT !.up = st.up + take,
                   !.out = [i \in 1..take |-> Map(p.map, Record(st.up + i))]]

\* what batch() pulls from the stage before it
Pull(k, st, p, n) ==
    IF p.shuffle > 0 THEN PullShuffled(k, st, p, n) ELSE PullInOrder(k, st, p, n)

\* batch(size, drop_remainder): a batch short of `size` ends the sequence when
\* it is empty or the remainder is dropped
IsDelivered(batch, p) ==
    Len(batch) = p.batch \/ (Len(batch) > 0 /\ ~p.drop_remainder)

\* the log of delivered ids, with the ids of one more batch
RECURSIVE Log(_, _, _)
Log(runs, batch, i) ==
    IF i > Len(batch) THEN runs
    ELSE LET id == batch[i].id
         IN  IF runs # <<>> /\ Last(runs).hi + 1 = id
             THEN Log([runs EXCEPT ![Len(runs)].hi = id], batch, i + 1)
             ELSE Log(Append(runs, [lo |-> id, hi |-> id]), batch, i + 1)

\* the passes fit() or evaluate() makes over a dataset
Passes(s) == IF s = "evaluate" THEN 1 ELSE Max(epochs(s, 1), epochs(s, 2))

InitData ==
    /\ script \in Scripts
    /\ environ = NoEnv
    /\ argv = <<ScriptFile(script)>>
    /\ pc = "environ" /\ status = "running" /\ error = "none"
    /\ DATADIR = Unset /\ datapath = Unset
    /\ datasets = [k \in {} |-> TestPipeline]
    /\ pt_model = NoModel /\ layers = <<>> /\ compiled = <<>>
    /\ phase = 1 /\ epoch = 0
    /\ logdirs = <<>> /\ files = <<>> /\ loaded = <<>>
    /\ events = <<>> /\ stdout = <<>>
    /\ \E split \in Splits(script) :
          /\ ds = [split |-> split, pipeline |-> Pipeline(script, split)]
          /\ nrecords \in SplitSizes(split)
    /\ labelling \in Labellings
    /\ seed \in 0..MaxSeed
    /\ dsEpoch = 0
    /\ upstream = 0
    /\ shufbuf = <<>>
    /\ delivered = <<>>
    /\ lastBatch = <<>>
    /\ nbatches = 0
    /\ exhausted = FALSE
    /\ NoImage

\* the consumer asks the dataset's iterator for its next batch
NextBatch ==
    /\ ~exhausted
    /\ LET st == Pull(ds.pipeline.batch,
                      [buf |-> shufbuf, up |-> upstream, rng |-> seed, out |-> <<>>],
                      ds.pipeline, nrecords)
       IN  /\ shufbuf' = st.buf
           /\ upstream' = st.up
           /\ seed' = st.rng
           /\ IF IsDelivered(st.out, ds.pipeline)
              THEN /\ lastBatch' = st.out
                   /\ delivered' = Log(delivered, st.out, 1)
                   /\ nbatches' = nbatches + 1
                   /\ UNCHANGED exhausted
              ELSE /\ exhausted' = TRUE
                   /\ UNCHANGED <<lastBatch, delivered, nbatches>>
    /\ UNCHANGED <<ds, nrecords, labelling, dsEpoch>>
    /\ UNCHANGED <<scriptVars, imageVars>>

\* the next epoch of fit() iterates the dataset again, from its first record
NextPass ==
    /\ exhausted
    /\ dsEpoch + 1 < Min(Passes(script), MaxPasses)
    /\ dsEpoch' = dsEpoch + 1
    /\ upstream' = 0
    /\ shufbuf' = <<>>
    /\ delivered' = <<>>
    /\ lastBatch' = <<>>
    /\ nbatches' = 0
    /\ exhausted' = FALSE
    /\ UNCHANGED <<ds, nrecords, labelling, seed>>
    /\ UNCHANGED <<scriptVars, imageVars>>

NextData == NextBatch \/ NextPass

SpecData == InitData /\ [][NextData]_vars

----------------------------------------------------------------------------
(* SpecImage: preprocess_image(image, augment)                             *)
(*                                                                         *)
(* A tensor is [shape, dtype, den, ops]: its elements are the rationals    *)
(* num/den, where num is computed on demand (PixelNum) from the decoded    *)
(* image through the operations `ops` applied so far.  Coordinates count   *)
(* from 0, as in the code.                                                 *)

Patterns == {"black", "white", "checker", "ramp"}

SrcDims ==
    (1..MaxSrcDim)
    \cup {INPUT_IMAGE_SIZE[1] - 1, INPUT_IMAGE_SIZE[1], AugmentResize[1] + 1}

\* the JPEG files preprocess_image is tried on: one that does not decode,
\* and grayscale and colour images of several sizes and contents
Jpegs ==
    {NoJpeg} \cup
    [ok : {TRUE}, height : SrcDims, width : SrcDims, components : {1, 3},
     pattern : Patterns]

\* the 8-bit value the decoder gives for channel c of pixel (y, x); a
\* grayscale image decoded with channels=3 has its one component in each
DecodedPixel(jpeg, y, x, c) ==
    LET ch == IF jpeg.components = 1 THEN 0 ELSE c
    IN  CASE jpeg.pattern = "black" -> 0
          [] jpeg.pattern = "white" -> 255
          [] jpeg.pattern = "checker" -> IF (y + x + ch) % 2 = 0 THEN 0 ELSE 255
          [] jpeg.pattern = "ramp" -> (97 * y + 31 * x + 7 * ch) % 256

\* tf.image.decode_jpeg(image, channels=3)
tf_image_decode_jpeg(jpeg) ==
    [shape |-> <<jpeg.height, jpeg.width, 3>>, dtype |-> "uint8", den |-> 1, ops |-> <<>>]

Op(op, t, a, b) == [op |-> op, h |-> t.shape[1], w |-> t.shape[2], a |-> a, b |-> b]

\* tf.image.resize(image, size): bilinear, to float32
tf_image_resize(t, size) ==
    [shape |-> <<size[1], size[2], t.shape[3]>>, dtype |-> "float32",
     den |-> t.den * (2 * size[1]) * (2 * size[2]),
     ops |-> Append(t.ops, Op("resize", t, size[1], size[2]))]

\* tf.image.random_crop(image, size) with the offsets drawn
tf_image_random_crop(t, size, oy, ox) ==
    [t EXCEPT !.shape = size, !.ops = Append(t.ops, Op("crop", t, oy, ox))]

\* tf.image.random_flip_left_right(image) with the coin drawn
tf_image_random_flip_left_right(t, flipped) ==
    [t EXCEPT !.ops = Append(t.ops, Op("flip", t, IF flipped THEN 1 ELSE 0, 0))]

\* variant: the division left out
Divide_forgotten(t, d) == t

\* image /= d
Divide(t, d) == [t EXCEPT !.den = t.den * d]

\* the offsets random_crop can draw along a dimension
CropOffsets(have, want) ==
    {o \in 0..(have - want) : o <= MaxOffset \/ o >= have - want - MaxOffset}

\* bilinear interpolation along one dimension (half-pixel centres): the two
\* source coordinates of output coordinate i, and the weight lerp/(2*out) of
\* the upper one
Interp(i, in, out) ==
    LET num == (2 * i + 1) * in - out
        den == 2 * out
        fl == num \div den
        lerp == num - fl * den
    IN  [lower |-> Max(fl, 0),
         upper |-> Min(IF lerp > 0 THEN fl + 1 ELSE fl, in - 1),
         lerp |-> lerp]

\* the numerator of element (y, x, c) of the tensor the first k operations give
RECURSIVE PixelNum(_, _, _, _, _, _)
PixelNum(jpeg, ops, k, y, x, c) ==
    IF k = 0 THEN DecodedPixel(jpeg, y, x, c)
    ELSE LET o == ops[k]
             In(yy, xx) == PixelNum(jpeg, ops, k - 1, yy, xx, c)
         IN  CASE o.op = "resize" ->
                    LET iy == Interp(y, o.h, o.a)
                        ix == Interp(x, o.w, o.b)
                        dy == 2 * o.a
                        dx == 2 * o.b
                        tl == In(iy.lower, ix.lower)
                        tr == In(iy.lower, ix.upper)
                        bl == In(iy.upper, ix.lower)
                        br == In(iy.upper, ix.upper)
                        top == tl * dx + (tr - tl) * ix.lerp
                        bottom == bl * dx + (br - bl) * ix.lerp
                    IN  top * dy + (bottom - top) * iy.lerp
               [] o.op = "crop" -> In(y + o.a, x + o.b)
               [] o.op = "flip" -> IF o.a = 1 THEN In(y, o.w - 1 - x) ELSE In(y, x)

\* variant: both paths resize to [256, 256]
ResizeTarget_always256(aug) == AugmentResize

\* the size preprocess_image resizes to: [256, 256] or INPUT_IMAGE_SIZE[:2]
ResizeTarget(aug) == IF aug THEN AugmentResize ELSE SubSeq(INPUT_IMAGE_SIZE, 1, 2)

InitImage ==
    /\ script \in Scripts
    /\ environ = NoEnv
    /\ argv = <<ScriptFile(script)>>
    /\ pc = "environ" /\ status = "running" /\ error = "none"
    /\ DATADIR = Unset /\ datapath = Unset
    /\ datasets = [k \in {} |-> TestPipeline]
    /\ pt_model = NoModel /\ layers = <<>> /\ compiled = <<>>
    /\ phase = 1 /\ epoch = 0
    /\ logdirs = <<>> /\ files = <<>> /\ loaded = <<>>
    /\ events = <<>> /\ stdout = <<>>
    /\ NoIteration
    /\ encoded \in Jpegs
    /\ augment \in BOOLEAN
    /\ ipc = "decode"
    /\ image = NoTensor

\* image = tf.image.decode_jpeg(image, channels=3)
Decode ==
    /\ ipc = "decode"
    /\ IF encoded.ok
       THEN image' = tf_image_decode_jpeg(encoded) /\ ipc' = "resize"
       ELSE image' = image /\ ipc' = "raised"
    /\ UNCHANGED <<encoded, augment>>
    /\ UNCHANGED <<scriptVars, dataVars>>

\* image = tf.image.resize(image, [256, 256])            (augment)
\* image = tf.image.resize(image, INPUT_IMAGE_SIZE[:2])  (otherwise)
Resize ==
    /\ ipc = "resize"
    /\ image' = tf_image_resize(image, ResizeTarget(augment))
    /\ ipc' = IF augment THEN "crop" ELSE "normalize"
    /\ UNCHANGED <<encoded, augment>>
    /\ UNCHANGED <<scriptVars, dataVars>>

\* image = tf.image.random_crop(image, INPUT_IMAGE_SIZE)
Crop ==
    /\ ipc = "crop"
    /\ IF \A d \in 1..3 : image.shape[d] >= INPUT_IMAGE_SIZE[d]
       THEN /\ \E oy \in CropOffsets(image.shape[1], INPUT_IMAGE_SIZE[1]),
                  ox \in CropOffsets(image.shape[2], INPUT_IMAGE_SIZE[2]) :
                  image' = tf_image_random_crop(image, INPUT_IMAGE_SIZE, oy, ox)
            /\ ipc' = "flip"
       ELSE image' = image /\ ipc' = "raised"
    /\ UNCHANGED <<encoded, augment>>
    /\ UNCHANGED <<scriptVars, dataVars>>

\* image = tf.image.random_flip_left_right(image)
Flip ==
    /\ ipc = "flip"
    /\ \E flipped \in BOOLEAN : image' = tf_image_random_flip_left_right(image, flipped)
    /\ ipc' = "normalize"
    /\ UNCHANGED <<encoded, augment>>
    /\ UNCHANGED <<scriptVars, dataVars>>

\* image /= 255.0; return image
Normalize ==
    /\ ipc = "normalize"
    /\ image' = Divide(image, 255)
    /\ ipc' = "return"
    /\ UNCHANGED <<encoded, augment>>
    /\ UNCHANGED <<scriptVars, dataVars>>

NextImage == Decode \/ Resize \/ Crop \/ Flip \/ Normalize

SpecImage == InitImage /\ [][NextImage]_vars

----------------------------------------------------------------------------
(* Properties of a run (Spec) *)

\* the calls of kind `call` the run has made, as positions in `events`
Calls(call, ph) == {i \in 1..Len(events) : events[i] = [call |-> call, phase |-> ph]}
Called(call, ph) == Calls(call, ph) # {}
Before(a, pa, b, pb) ==
    \A j \in Calls(b, pb) : \E i \in Calls(a, pa) : i < j

\* C1: the evaluation script given no model-file argument (fewer than 2 entries
\* in sys.argv) never loads nor evaluates a model, and leaves the argument check
\* only by printing the error message and exiting; given the argument, the
\* model is loaded from exactly sys.argv[1], the run never exits at the check,
\* and a run that finishes has loaded that model and then evaluated it.
C1_ArgumentCheck ==
    script = "evaluate" =>
        /\ Len(argv) < 2 =>
              /\ loaded = <<>>
              /\ ~Called("load_model", 0) /\ ~Called("evaluate", 0)
              /\ pc \in {"environ", "import", "datadir", "datasets", "argcheck"}
              /\ status \in {"running", "exited", "raised"}
              /\ (status = "raised" => pc = "import")
              /\ (status = "exited" =>
                    pc = "argcheck" /\ Last(stdout) = <<"ERROR: model file missing">>)
        /\ Len(argv) >= 2 =>
              /\ status # "exited"
              /\ loaded \in {<<>>, <<argv[2]>>}
              /\ (Called("load_model", 0) <=> loaded = <<argv[2]>>)
              /\ Before("load_model", 0, "evaluate", 0)
              /\ (status = "finished" =>
                    Called("evaluate", 0) /\ loaded = <<argv[2]>>)

C1_Witness ==
    /\ script = "evaluate" /\ Len(argv) < 2
    /\ status = "exited" /\ stdout = << <<"ERROR: model file missing">> >>

\* what holds of every state of a run, failed or not
C2_State ==
    /\ (error # "none" <=> status = "raised")
    /\ \A i, j \in 1..Len(events) : i # j => events[i] # events[j]
    /\ \A k \in 1..Len(files) : Called("fit_returned", k) /\ Called("save", k)
    /\ (status = "raised" /\ pc = "fitting" =>
          /\ Len(files) = phase - 1
          /\ ~Called("fit_returned", phase) /\ ~Called("save", phase))

\* C2: a failure at any step ends the run at that step: once an error is
\* raised no step of the run follows (no retry, no later step), no call is
\* made twice, and every artifact written belongs to a phase whose fit returned;
\* a run that failed inside the fit of a phase wrote no artifact for that phase.
C2_FailureEndsRun ==
    /\ []C2_State
    /\ [][status = "raised" => UNCHANGED vars]_vars

C2_Witness ==
    /\ script = "pretrained" /\ status = "raised" /\ pc = "fitting" /\ phase = 2
    /\ error = "parse" /\ Len(files) = 1

\* C3: an artifact is written after each training phase: every save follows
\* the return of its phase's fit; the simple script ends with its one artifact;
\* in the pretrained script the "-reuse" artifact is saved after the first fit
\* returned and before the second fit starts, the "-finetune" artifact after
\* the second fit returned, and the two file names differ.
C3_ArtifactPerPhase ==
    script # "evaluate" =>
        /\ \A ph \in 1..2 :
              /\ Before("fit", ph, "fit_returned", ph)
              /\ Before("fit_returned", ph, "save", ph)
              /\ (Called("save", ph) <=> Len(files) >= ph)
        /\ Before("save", 1, "fit", 2)
        /\ (pc \in {"unfreeze", "end"} => Called("save", phase))
        /\ (script = "simple" =>
              /\ ~Called("fit", 2)
              /\ files \in {<<>>, << <<"dvc_tfr-cnn-simple.h5">> >>}
              /\ (status = "finished" => Len(files) = 1))
        /\ (script = "pretrained" =>
              /\ (Len(files) >= 1 => files[1] = <<"dvc_tfr-", pt_model.name, "-reuse.h5">>)
              /\ (Len(files) >= 2 => files[2] = <<"dvc_tfr-", pt_model.name, "-finetune.h5">>)
              /\ Len(files) <= 2
              /\ \A i, j \in 1..Len(files) : i # j => files[i] # files[j]
              /\ (status = "finished" => Len(files) = 2))

C3_Witness ==
    /\ script = "pretrained" /\ status = "finished"
    /\ Len(files) = 2 /\ files[1] # files[2]

\* C8: once the scripts have set DATADIR, it is the value of the environment
\* variable DATADIR whenever that variable is present (the empty string
\* included) and "/scratch/project_2000859/extracted/" only when it is absent;
\* datapath is DATADIR joined with "dogs-vs-cats/train-2000/tfrecord/", in
\* each of the three scripts.
C8_Datapath ==
    pc \notin {"environ", "import", "datadir"} =>
        /\ ("DATADIR" \in DOMAIN environ => DATADIR = environ["DATADIR"])
        /\ ("DATADIR" \notin DOMAIN environ =>
              DATADIR = <<"/", "scratch", "/", "project_2000859", "/", "extracted", "/">>)
        /\ LET sub == <<"dogs-vs-cats", "/", "train-2000", "/", "tfrecord", "/">>
           IN  datapath = IF DATADIR = <<>> THEN sub
                          ELSE IF Last(DATADIR) = "/" THEN DATADIR \o sub
                          ELSE DATADIR \o <<"/">> \o sub

C8_Witness ==
    /\ "DATADIR" \in DOMAIN environ /\ environ["DATADIR"] = <<>>
    /\ pc = "datasets" /\ DATADIR = <<>>
    /\ datapath = <<"dogs-vs-cats", "/", "train-2000", "/", "tfrecord", "/">>

\* the layers while the first fit runs
C9_Phase1 ==
    script = "pretrained" /\ phase = 1 /\ pc \in {"fit", "fitting", "save"} =>
        /\ \A i \in 1..Len(layers) : layers[i].trainable <=> layers[i].origin = "top"
        /\ compiled = [i \in 1..Len(layers) |-> layers[i].origin = "top"]

\* the layers once the second fit has started
C9_Phase2 ==
    Called("fit", 2) =>
        /\ Before("compile", 2, "fit", 2) /\ Before("save", 1, "compile", 2)
        /\ \A i \in 1..Len(layers) :
              layers[i].trainable <=> (i - 1 >= 15 \/ layers[i].origin = "top")
        /\ \A i \in 1..Len(layers) : i - 1 < 15 => ~layers[i].trainable
        /\ compiled = [i \in 1..Len(layers) |-> layers[i].trainable]

\* the step that leaves the unfreeze loop
C9_UnfreezeStep ==
    pc = "unfreeze" /\ pc' # "unfreeze" =>
        /\ Len(layers') = Len(layers)
        /\ \A i \in 1..Len(layers) :
              /\ (i - 1 >= 15 => layers'[i].trainable)
              /\ (i - 1 < 15 => layers'[i] = layers[i] /\ ~layers'[i].trainable)
              /\ (layers[i].trainable => layers'[i].trainable)
              /\ layers'[i] = [layers[i] EXCEPT !.trainable = layers'[i].trainable]

\* C9: in the pretrained script, while the first fit runs every layer taken
\* from the pretrained network is non-trainable and exactly the stacked top
\* layers are trainable; the unfreeze step makes the layers at index 15 and
\* above trainable, leaves every layer below index 15 as it was and
\* non-trainable, and freezes no layer; the second fit starts only after the
\* unfreeze and a compile that captured the unfrozen layers.
C9_FineTuning ==
    /\ [](C9_Phase1 /\ C9_Phase2)
    /\ [][C9_UnfreezeStep]_vars

C9_Witness ==
    /\ script = "pretrained" /\ pc = "fitting" /\ phase = 2 /\ epoch = 1
    /\ Len(layers) = 23
    /\ layers[16].origin = "pretrained" /\ layers[16].trainable
    /\ ~layers[15].trainable

----------------------------------------------------------------------------
(* Properties of the datasets (SpecData) *)

Ids(runs) == UNION {runs[i].lo .. runs[i].hi : i \in 1..Len(runs)}
\* the number of deliveries logged (an id delivered twice counts twice)
Count(runs) ==
    Cardinality(UNION {{<<i, id>> : id \in runs[i].lo .. runs[i].hi} : i \in 1..Len(runs)})
InReadOrder(batch, first) == \A i \in 1..Len(batch) : batch[i].id = first + i - 1

\* C4: the test set of 22000 records, batched by 32 without dropping the
\* remainder, is delivered in 688 batches: the first 687 of 32 records, the
\* last of 16; the batches hold the records in read order, each record once.
C4_TestBatches ==
    ds.split = "test" /\ nrecords = 22000 =>
        /\ nbatches <= 688
        /\ (nbatches >= 1 =>
              /\ Len(lastBatch) = IF nbatches = 688 THEN 16 ELSE 32
              /\ InReadOrder(lastBatch, 32 * (nbatches - 1) + 1)
              /\ delivered = << [lo |-> 1, hi |-> Last(lastBatch).id] >>)
        /\ (exhausted => nbatches = 688 /\ delivered = << [lo |-> 1, hi |-> 22000] >>)

C4_Witness ==
    /\ ds.split = "test" /\ nrecords = 22000 /\ exhausted
    /\ nbatches = 688 /\ Len(lastBatch) = 16 /\ lastBatch[16].id = 22000

\* C5: every validation and test record is parsed without augmentation and
\* delivered in read order (never shuffled); every training record is parsed
\* with augmentation; only the training pipeline shuffles.
C5_AugmentTrainOnly ==
    /\ \A i \in 1..Len(lastBatch) : lastBatch[i].augment <=> ds.split = "train"
    /\ \A i \in 1..Len(shufbuf) : shufbuf[i].augment /\ ds.split = "train"
    /\ (ds.split \in {"validation", "test"} =>
          /\ shufbuf = <<>>
          /\ (lastBatch # <<>> =>
                /\ delivered = << [lo |-> 1, hi |-> Last(lastBatch).id] >>
                /\ InReadOrder(lastBatch, Last(lastBatch).id - Len(lastBatch) + 1)))
    /\ (ds.split # "none" => (ds.pipeline.shuffle > 0 <=> ds.split = "train"))

C5_Witness ==
    /\ ds.split = "train" /\ nbatches = 2 /\ lastBatch[1].augment
    /\ Len(delivered) > 1

\* C10: in the training scripts every batch of the training and of the
\* validation dataset holds exactly 32 records; in an epoch the 2000 training
\* records give 62 batches (1984 records, 16 dropped), the 1000 validation
\* records give 31 batches (992 records), the records dropped being the last 8
\* in read order; no record is delivered twice in an epoch.
C10_DropRemainder ==
    ds.split \in {"train", "validation"} =>
        /\ (nbatches >= 1 => Len(lastBatch) = 32)
        /\ Count(delivered) = 32 * nbatches
        /\ Cardinality(Ids(delivered)) = Count(delivered)
        /\ Ids(delivered) \subseteq 1..nrecords
        /\ (ds.split = "train" /\ nrecords = 2000 =>
              /\ nbatches <= 62
              /\ (exhausted =>
                    /\ nbatches = 62 /\ Count(delivered) = 1984
                    /\ Cardinality((1..2000) \ Ids(delivered)) = 16))
        /\ (ds.split = "validation" /\ nrecords = 1000 =>
              /\ nbatches <= 31
              /\ (exhausted =>
                    /\ nbatches = 31 /\ Count(delivered) = 992
                    /\ (1..1000) \ Ids(delivered) = 993..1000))

C10_Witness ==
    /\ ds.split = "train" /\ nrecords = 2000 /\ exhausted /\ dsEpoch = 1
    /\ nbatches = 62 /\ (1..2000) \ Ids(delivered) # 1985..2000

\* the parsed records a state holds: the last batch and the shuffle buffer
Parsed == {lastBatch[i] : i \in 1..Len(lastBatch)} \cup {shufbuf[i] : i \in 1..Len(shufbuf)}

\* C11: every parsed record carries the stored class label minus 1, on the
\* augmenting and on the non-augmenting path: a stored 1 or 2 gives a label
\* in {0, 1}, and a record without the label field gives -1 (the default 0
\* minus 1), no error being raised.
C11_Label ==
    \A rec \in Parsed :
        LET stored == Features(rec.id)
        IN  /\ ~rec.error
            /\ (rec.augment <=> ds.split = "train")
            /\ IF "image/class/label" \in DOMAIN stored
               THEN /\ rec.label = stored["image/class/label"] - 1
                    /\ (stored["image/class/label"] = 1 => rec.label = 0)
                    /\ (stored["image/class/label"] = 2 => rec.label = 1)
               ELSE rec.label = -1

C11_Witness ==
    /\ ds.split = "validation" /\ labelling = "irregular" /\ nbatches = 1
    /\ lastBatch[4].label = -1 /\ lastBatch[1].label = 0 /\ lastBatch[2].label = 1
    /\ ~lastBatch[4].error

----------------------------------------------------------------------------
(* Properties of preprocess_image (SpecImage) *)

\* the elements looked at: those within MaxProbe of an edge
Near(n) == {i \in 0..(n - 1) : i <= MaxProbe \/ i >= n - 1 - MaxProbe}
Probes(t) == Near(t.shape[1]) \X Near(t.shape[2]) \X (0..(t.shape[3] - 1))
Num(t, p) == PixelNum(encoded, t.ops, Len(t.ops), p[1], p[2], p[3])

\* C6: preprocess_image returns a tensor of shape 160x160x3 for every image
\* that decodes, whatever its height and width, on the augmenting path
\* (resize to 256x256, crop to 160x160x3, flip) and on the other (resize to
\* 160x160); it fails only on an image that does not decode.
C6_Shape ==
    /\ (ipc = "return" => image.shape = <<160, 160, 3>>)
    /\ (ipc = "crop" => image.shape = <<256, 256, 3>>)
    /\ (ipc = "flip" => image.shape = <<160, 160, 3>>)
    /\ (ipc = "raised" => ~encoded.ok)

C6_Witness ==
    /\ ipc = "return" /\ augment /\ encoded.height = 1 /\ encoded.width = 257
    /\ Len(image.ops) = 3 /\ image.shape = <<160, 160, 3>>

\* C7: every element of the tensor preprocess_image returns lies in [0, 1],
\* on both paths, the decoded channel values being in 0..255 and the division
\* by 255 being the last operation.
C7_Range ==
    /\ (ipc = "resize" =>
          \A p \in Probes(image) : Num(image, p) \in 0..255 /\ image.den = 1)
    /\ (ipc = "return" =>
          /\ image.den > 0
          /\ \A p \in Probes(image) :
                LET num == Num(image, p) IN 0 <= num /\ num <= image.den)

C7_Witness ==
    /\ ipc = "return" /\ augment /\ encoded.pattern = "checker"
    /\ \E p \in Probes(image) : Num(image, p) = image.den
    /\ \E p \in Probes(image) : 0 < Num(image, p) /\ Num(image, p) < image.den

====
